---------------------------- MODULE Spec2Model ----------------------------
(***************************************************************************)
(* A model of dirdb (src/dirdb.py): the partial fingerprint                *)
(* (hash_file_partial), the catalog engine (update_paths and               *)
(* process_dbpath) and the sync planner (gen_sync_script), together with   *)
(* the execution of the emitted shell script by /bin/sh -e.                *)
(*                                                                         *)
(* Paths are Python strings; they are modelled as sequences of one-letter  *)
(* strings so that str.startswith, slicing and os.path.dirname are         *)
(* computed on characters, as the code computes them.                      *)
(***************************************************************************)
EXTENDS Integers, Sequences, FiniteSets, TLC

VARIABLES
    \* ---- sync planner (gen_sync_script) ----
    src_dbs,        \* source catalogs in discovery order: <<[path, rows]>>
    dst_dbs,        \* destination catalogs in discovery order
    ppc,            \* position of the planner
    ci,             \* index of the source catalog of the outer loop
    entries,        \* rows of that catalog with size > 0
    ei,             \* index of the next entry of the inner loop
    done,           \* parthashes already processed
    mkdirs,         \* directories a mkdir line was written for
    script,         \* the lines written to the script file
    n_actions,      \* counter of mv and cp lines
    transfer_bytes, \* counter of bytes missing on the destination
    subdir,         \* catalog root of the last cd line, or None
    traps,          \* source lines of the pdb.set_trace() calls reached
    \* ---- execution of the script by /bin/sh -e ----
    tree,           \* destination files: relpath -> content key or NoFile
    tdirs,          \* destination directories that exist
    ip,             \* index of the next script line
    failed,         \* a line exited non-zero (the shell stopped there)
    \* ---- fingerprint (hash_file_partial) ----
    h_files,        \* the contents of the files to hash
    h_chunk,        \* chunk_size
    h_inputs,       \* per file hashed, the bytes given to the digest
    \* ---- catalog engine (update_paths, process_dbpath) ----
    fs,             \* the files on disk: path -> content or Absent
    stores,         \* the database of each root that has one
    upc,            \* position of the engine
    dbpaths,        \* the roots update_paths was called with
    all_files,      \* per catalog root, the files the walk found
    new_files,      \* per catalog root, the files without a row
    missing_files,  \* per catalog root, the rows without a file
    cursors,        \* the roots whose database the process has opened
    queue,          \* the roots the current pass has still to process
    log,            \* the advisories printed by the move report
    inserted,       \* rows inserted by the current run
    deleted,        \* rows deleted by the current run
    settled,        \* the arguments of the last run, until the disk changes
    rerun,          \* the current run repeats the last one on an unchanged disk
    runs            \* number of runs started

planVars == <<src_dbs, dst_dbs, ppc, ci, entries, ei, done, mkdirs, script,
              n_actions, transfer_bytes, subdir, traps>>
execVars == <<tree, tdirs, ip, failed>>
hashVars == <<h_files, h_chunk, h_inputs>>
updVars == <<fs, stores, upc, dbpaths, all_files, new_files, missing_files,
             cursors, queue, log, inserted, deleted, settled, rerun, runs>>
vars == <<planVars, execVars, hashVars, updVars>>

None == "None"

\* None where a path is expected
NoPath == <<None>>

\* None where a list of paths is expected
NoPaths == <<NoPath>>

----------------------------------------------------------------------------
(* Python strings *)

\* str.startswith
StartsWith(s, pre) ==
    /\ Len(pre) <= Len(s)
    /\ SubSeq(s, 1, Len(pre)) = pre

\* s[n:]
SliceFrom(s, n) == SubSeq(s, n + 1, Len(s))

\* str.rstrip("/")
RECURSIVE RStripSlash(_)
RStripSlash(s) ==
    IF s # <<>> /\ s[Len(s)] = "/" THEN RStripSlash(SubSeq(s, 1, Len(s) - 1))
    ELSE s

\* str.rfind("/") + 1
LastSlash(s) ==
    LET idx == {i \in 1..Len(s) : s[i] = "/"}
    IN IF idx = {} THEN 0 ELSE CHOOSE i \in idx : \A j \in idx : j <= i

\* os.path.dirname (posixpath): the head up to the last slash, its trailing
\* slashes stripped unless it consists of slashes only
Dirname(s) ==
    LET head == SubSeq(s, 1, LastSlash(s))
    IN IF head # <<>> /\ (\E i \in 1..Len(head) : head[i] # "/")
       THEN RStripSlash(head)
       ELSE head

----------------------------------------------------------------------------
(* hash_file_partial: the bytes it gives to the digest.  The digest itself  *)
(* (md5) is not modelled: two files are told apart by it exactly when the   *)
(* bytes given to it differ.                                                *)

Min(a, b) == IF a < b THEN a ELSE b

\* f.read(n) of an unbuffered file at offset pos: the bytes up to the end of
\* the file, none at or past the end
ReadAt(content, pos, n) ==
    IF pos >= Len(content) THEN <<>>
    ELSE SubSeq(content, pos + 1, Min(pos + n, Len(content)))

\* f.seek(offset, 2): the offset counts from the end of the file
SeekEnd(content, offset) == Len(content) + offset

\* lines 38-49
HashFilePartial(content, chunk_size) ==
    LET fsize == Len(content)
    IN IF fsize <= chunk_size * 2
       THEN ReadAt(content, 0, fsize)
       ELSE ReadAt(content, 0, chunk_size)
            \o ReadAt(content, SeekEnd(content, chunk_size), chunk_size)

MaxFileLen == 4
MaxChunk == 2

Bytes == {0, 1}

FileContents == UNION {[1..n -> Bytes] : n \in 0..MaxFileLen}

HashIdle ==
    /\ h_files = <<>> /\ h_chunk = 0 /\ h_inputs = <<>>

----------------------------------------------------------------------------
(* The tree the catalog engine works on: a root p with the directories p/s  *)
(* and p/s2, one file in each of the three                                  *)

DbFileName == <<".", "d", "b">>

Join(dir, name) == dir \o <<"/">> \o name

P == <<"p">>
Sub == Join(P, <<"s">>)
Sub2 == Join(P, <<"s", "2">>)

\* the directories, in the order os.walk visits them
Dirs == <<P, Sub, Sub2>>
DirSet == {Dirs[i] : i \in 1..Len(Dirs)}

FileName == <<"f">>

DataFiles == {Join(d, FileName) : d \in DirSet}

Absent == <<-1>>

UpdContents == {<<0>>, <<0, 1>>}

\* a root without a database file, and the database process_dbpath creates
NoDb == [exists |-> FALSE, files |-> <<>>, sub_dbs |-> <<>>]
EmptyDb == [exists |-> TRUE, files |-> <<>>, sub_dbs |-> <<>>]

UpdIdle ==
    /\ fs = [f \in DataFiles |-> Absent]
    /\ stores = [d \in DirSet |-> NoDb]
    /\ upc = "idle" /\ dbpaths = <<>>
    /\ all_files = <<>> /\ new_files = <<>> /\ missing_files = <<>>
    /\ cursors = <<>> /\ queue = <<>> /\ log = <<>>
    /\ inserted = {} /\ deleted = {}
    /\ settled = NoPaths /\ rerun = FALSE /\ runs = 0

----------------------------------------------------------------------------
(* Inputs of the sync planner: the catalogs it opens *)

MaxRecs == 2

PlanRelpaths == {<<"a">>, <<"b">>, <<"d", "/", "a">>}

\* <<size, parthash>> of the file contents that occur; "h0" is the digest of
\* the empty file
PlanKeys == {<<0, "h0">>, <<1, "h1">>, <<1, "h2">>, <<2, "h1">>}

PlanRecords ==
    {[relpath |-> p, size |-> k[1], parthash |-> k[2]] :
        p \in PlanRelpaths, k \in PlanKeys}

\* the order in which a walk of the tree meets the files, and so the order of
\* the rows it inserts: the files of a directory before those of its
\* subdirectories
WalkRank(r) ==
    (CASE r.relpath = <<"a">> -> 0
       [] r.relpath = <<"b">> -> 1
       [] OTHER -> 2) * 8 + r.size * 2 + (IF r.parthash = "h2" THEN 1 ELSE 0)

RECURSIVE InWalkOrder(_)
InWalkOrder(S) ==
    IF S = {} THEN <<>>
    ELSE LET r == CHOOSE x \in S : \A y \in S : WalkRank(x) <= WalkRank(y)
         IN <<r>> \o InWalkOrder(S \ {r})

\* the rows of one files relation: process_dbpath never inserts a row whose
\* size and relpath a row already has
CatalogRows ==
    {InWalkOrder(S) : S \in
        {T \in SUBSET PlanRecords :
            /\ Cardinality(T) <= MaxRecs
            /\ \A x, y \in T :
                  (x.relpath = y.relpath /\ x.size = y.size) => x = y}}

SrcRoot == <<"s">>
DstRoot == <<"t">>

Line(op, a, b) == [op |-> op, a |-> a, b |-> b]

----------------------------------------------------------------------------
(* gen_sync_script: the queries of one entry *)

\* SELECT * FROM files WHERE size == .. AND parthash == .., per catalog
Query(dbs, size, parthash) ==
    [i \in 1..Len(dbs) |->
        SelectSeq(dbs[i].rows,
                  LAMBDA r : r.size = size /\ r.parthash = parthash)]

RECURSIVE Count(_)
Count(q) == IF q = <<>> THEN 0 ELSE Len(Head(q)) + Count(Tail(q))

\* the rows of dup_entries / rem_dup_entries in the order the nested loops
\* visit them, each a dict without "matched"
RECURSIVE Flatten(_, _)
Flatten(q, i) ==
    IF i > Len(q) THEN <<>>
    ELSE [k \in 1..Len(q[i]) |->
             [db |-> i, relpath |-> q[i][k].relpath, matched |-> FALSE]]
         \o Flatten(q, i + 1)

InList(x, list) == \E i \in 1..Len(list) : list[i] = x

FirstIdx(S) == CHOOSE i \in S : \A j \in S : i <= j

----------------------------------------------------------------------------
(* gen_sync_script: the many-to-many branch *)

\* lines 470-483: each l_entry is matched with the first r_entry of the same
\* relpath, which is marked matched too
PathIdentityPass(L, R) ==
    LET same(i) == {j \in 1..Len(R) : R[j].relpath = L[i].relpath}
    IN [L |-> [i \in 1..Len(L) |-> [L[i] EXCEPT !.matched = same(i) # {}]],
        R |-> [j \in 1..Len(R) |->
                 [R[j] EXCEPT !.matched =
                     \E i \in 1..Len(L) :
                         same(i) # {} /\ j = FirstIdx(same(i))]]]

\* lines 496-499 and 517-520: the memoized mkdir line
MkdirLines(dir, made) ==
    IF InList(dir, made) THEN <<>> ELSE <<Line("mkdir", dir, <<>>)>>

MkdirMemo(dir, made) ==
    IF InList(dir, made) THEN made ELSE Append(made, dir)

\* MoveOrReflink without the marking of line 504: the r_entry a mv line has
\* consumed stays available
MoveOrReflinkNoMark(l, st, r_num) ==
    LET R == st.R
        free == {j \in 1..Len(R) : ~R[j].matched}
        dir == Dirname(l.relpath)
    IN IF l.matched THEN [st EXCEPT !.lm = Append(st.lm, TRUE)]
       ELSE IF free # {} THEN
           LET j == FirstIdx(free)
           IN [st EXCEPT
                 !.lines = st.lines \o MkdirLines(dir, st.mkdirs)
                             \o <<Line("mv", R[j].relpath, l.relpath)>>,
                 !.mkdirs = MkdirMemo(dir, st.mkdirs),
                 !.n = st.n + 1,
                 !.lm = Append(st.lm, TRUE)]
       ELSE IF R # <<>> THEN
           [st EXCEPT
              !.lines = st.lines \o MkdirLines(dir, st.mkdirs)
                          \o <<Line("cp", R[1].relpath, l.relpath)>>,
              !.mkdirs = MkdirMemo(dir, st.mkdirs),
              !.n = st.n + 1,
              !.lm = Append(st.lm, TRUE)]
       ELSE [st EXCEPT
               !.traps = IF r_num > 0 THEN Append(st.traps, 536) ELSE st.traps,
               !.lm = Append(st.lm, FALSE)]

\* lines 485-536, one l_entry: a mv from the first unmatched r_entry, else a
\* cp --reflink from the first r_entry, else the trap of line 536; st.lm
\* collects l_entry["matched"] of the entries visited
MoveOrReflink(l, st, r_num) ==
    LET R == st.R
        free == {j \in 1..Len(R) : ~R[j].matched}
        dir == Dirname(l.relpath)
    IN IF l.matched THEN [st EXCEPT !.lm = Append(st.lm, TRUE)]
       ELSE IF free # {} THEN
           LET j == FirstIdx(free)
           IN [st EXCEPT
                 !.R = [R EXCEPT ![j].matched = TRUE],
                 !.lines = st.lines \o MkdirLines(dir, st.mkdirs)
                             \o <<Line("mv", R[j].relpath, l.relpath)>>,
                 !.mkdirs = MkdirMemo(dir, st.mkdirs),
                 !.n = st.n + 1,
                 !.lm = Append(st.lm, TRUE)]
       ELSE IF R # <<>> THEN
           [st EXCEPT
              !.lines = st.lines \o MkdirLines(dir, st.mkdirs)
                          \o <<Line("cp", R[1].relpath, l.relpath)>>,
              !.mkdirs = MkdirMemo(dir, st.mkdirs),
              !.n = st.n + 1,
              !.lm = Append(st.lm, TRUE)]
       ELSE [st EXCEPT
               !.traps = IF r_num > 0 THEN Append(st.traps, 536) ELSE st.traps,
               !.lm = Append(st.lm, FALSE)]

RECURSIVE MovePass(_, _, _, _)
MovePass(L, i, st, r_num) ==
    IF i > Len(L) THEN st
    ELSE MovePass(L, i + 1, MoveOrReflink(L[i], st, r_num), r_num)

\* lines 538-544: every r_entry left unmatched enters the debugger
UnmatchedRTraps(R) ==
    LET free == SelectSeq(R, LAMBDA r : ~r.matched)
    IN [k \in 1..Len(free) |-> 544]

\* lines 546-549: once per source catalog, on the l_entry the loops ended with
UnmatchedLTraps(n_src, lm, r_num) ==
    IF lm # <<>> /\ ~lm[Len(lm)] /\ r_num > 0
    THEN [k \in 1..n_src |-> 549] ELSE <<>>

\* lines 551-552: found is set when the l_entry that is the entry of the outer
\* loop (same catalog, same relpath) gets matched
NotFoundTraps(L, lm, cur_db, cur_relpath, r_num) ==
    LET found == \E i \in 1..Len(L) :
                    lm[i] /\ L[i].db = cur_db /\ L[i].relpath = cur_relpath
    IN IF ~found /\ r_num > 0 THEN <<552>> ELSE <<>>

\* lines 452-552 for one entry; the outcome of the whole branch
ManyToMany(sql_dup_entries, sql_rem_dup_entries, made, r_num, cur_db, cur_relpath) ==
    LET L == Flatten(sql_dup_entries, 1)
        a == PathIdentityPass(L, Flatten(sql_rem_dup_entries, 1))
        st == MovePass(a.L, 1,
                       [R |-> a.R, lines |-> <<>>, mkdirs |-> made,
                        n |-> 0, traps |-> <<>>, lm |-> <<>>],
                       r_num)
    IN [lines |-> st.lines, mkdirs |-> st.mkdirs, n |-> st.n, bytes |-> 0,
        traps |-> st.traps \o UnmatchedRTraps(st.R)
                   \o UnmatchedLTraps(Len(sql_dup_entries), st.lm, r_num)
                   \o NotFoundTraps(L, st.lm, cur_db, cur_relpath, r_num),
        raised |-> FALSE]

----------------------------------------------------------------------------
(* gen_sync_script: one entry of the outer loops *)

Outcome(lines, made, n, bytes, trapped, raised) ==
    [lines |-> lines, mkdirs |-> made, n |-> n, bytes |-> bytes,
     traps |-> trapped, raised |-> raised]

\* OneToOne without the comparison of line 433
OneToOneNoCompare(sql_dup_entries, sql_rem_dup_entries, made) ==
    IF sql_dup_entries[1] = <<>> \/ sql_rem_dup_entries[1] = <<>>
    THEN Outcome(<<>>, made, 0, 0, <<>>, TRUE)
    ELSE LET src == sql_dup_entries[1][1]
             dst == sql_rem_dup_entries[1][1]
             mkdir == Dirname(src.relpath)
         IN IF mkdir = <<>>
            THEN Outcome(<<>>, made, 0, 0, <<>>, FALSE)
            ELSE Outcome(MkdirLines(mkdir, made)
                            \o <<Line("mv", dst.relpath, src.relpath)>>,
                         MkdirMemo(mkdir, made), 1, 0, <<>>, FALSE)

\* lines 429-444: the rows are taken from the first source and the first
\* destination catalog; an empty list there raises IndexError
OneToOne(sql_dup_entries, sql_rem_dup_entries, made) ==
    IF sql_dup_entries[1] = <<>> \/ sql_rem_dup_entries[1] = <<>>
    THEN Outcome(<<>>, made, 0, 0, <<>>, TRUE)
    ELSE LET src == sql_dup_entries[1][1]
             dst == sql_rem_dup_entries[1][1]
             mkdir == Dirname(src.relpath)
         IN IF src.relpath = dst.relpath \/ mkdir = <<>>
            THEN Outcome(<<>>, made, 0, 0, <<>>, FALSE)
            ELSE Outcome(MkdirLines(mkdir, made)
                            \o <<Line("mv", dst.relpath, src.relpath)>>,
                         MkdirMemo(mkdir, made), 1, 0, <<>>, FALSE)

\* PlanOne without the addition of line 449
PlanOneNoBytes(entry, cur_db, made) ==
    LET sql_dup_entries == Query(src_dbs, entry.size, entry.parthash)
        sql_rem_dup_entries == Query(dst_dbs, entry.size, entry.parthash)
        l_num == Count(sql_dup_entries)
        r_num == Count(sql_rem_dup_entries)
        zero == IF l_num = 0 THEN <<446>> ELSE <<>>
    IN IF l_num = 1 /\ r_num = 1
       THEN OneToOne(sql_dup_entries, sql_rem_dup_entries, made)
       ELSE IF r_num = 0
       THEN Outcome(<<Line("missing", entry.relpath, <<>>)>>, made, 0,
                    0, zero, FALSE)
       ELSE LET m == ManyToMany(sql_dup_entries, sql_rem_dup_entries, made,
                                r_num, cur_db, entry.relpath)
            IN [m EXCEPT !.traps = zero \o m.traps]

\* lines 411-552 for an entry whose parthash is not in done
PlanOne(entry, cur_db, made) ==
    LET sql_dup_entries == Query(src_dbs, entry.size, entry.parthash)
        sql_rem_dup_entries == Query(dst_dbs, entry.size, entry.parthash)
        l_num == Count(sql_dup_entries)
        r_num == Count(sql_rem_dup_entries)
        zero == IF l_num = 0 THEN <<446>> ELSE <<>>
    IN IF l_num = 1 /\ r_num = 1
       THEN OneToOne(sql_dup_entries, sql_rem_dup_entries, made)
       ELSE IF r_num = 0
       THEN Outcome(<<Line("missing", entry.relpath, <<>>)>>, made, 0,
                    entry.size, zero, FALSE)
       ELSE LET m == ManyToMany(sql_dup_entries, sql_rem_dup_entries, made,
                                r_num, cur_db, entry.relpath)
            IN [m EXCEPT !.traps = zero \o m.traps]

----------------------------------------------------------------------------
(* gen_sync_script: the steps of the planner *)

NoFile == <<-1, "absent">>

PlanStart ==
    /\ ppc = "start" /\ ci = 0 /\ entries = <<>> /\ ei = 0
    /\ done = <<>> /\ mkdirs = <<>> /\ script = <<>>
    /\ n_actions = 0 /\ transfer_bytes = 0 /\ subdir = NoPath /\ traps = <<>>
    /\ tree = [p \in PlanRelpaths |-> NoFile] /\ tdirs = {}
    /\ ip = 0 /\ failed = FALSE

\* one source catalog and one destination catalog
InitPlan ==
    /\ src_dbs \in {<<[path |-> SrcRoot, rows |-> rs]>> : rs \in CatalogRows}
    /\ dst_dbs \in {<<[path |-> DstRoot, rows |-> rs]>> : rs \in CatalogRows}
    /\ PlanStart
    /\ HashIdle /\ UpdIdle

\* lines 365-392: the script is opened and its first line written
PlanOpen ==
    /\ ppc = "start"
    /\ script' = <<Line("sh -e", <<>>, <<>>)>>
    /\ ci' = 1
    /\ ppc' = "loop"
    /\ UNCHANGED <<src_dbs, dst_dbs, entries, ei, done, mkdirs, n_actions,
                   transfer_bytes, subdir, traps, execVars, hashVars, updVars>>

\* lines 393-400: the next source catalog, its rows of size > 0, the cd lines
PlanCatalog ==
    /\ ppc = "loop" /\ ci <= Len(src_dbs)
    /\ entries' = SelectSeq(src_dbs[ci].rows, LAMBDA r : r.size > 0)
    /\ script' = script
                 \o (IF subdir # NoPath
                     THEN <<Line("cd back", subdir, <<>>)>> ELSE <<>>)
                 \o <<Line("cd", src_dbs[ci].path, <<>>)>>
    /\ subdir' = src_dbs[ci].path
    /\ ei' = 1
    /\ ppc' = "entries"
    /\ UNCHANGED <<src_dbs, dst_dbs, ci, done, mkdirs, n_actions,
                   transfer_bytes, traps, execVars, hashVars, updVars>>

\* lines 403-552: one entry; a parthash in done is skipped, an IndexError ends
\* the program, a pdb.set_trace() stops at the debugger's prompt
PlanEntry ==
    /\ ppc = "entries" /\ ei <= Len(entries)
    /\ ei' = ei + 1
    /\ IF InList(entries[ei].parthash, done)
       THEN UNCHANGED <<ppc, done, mkdirs, script, n_actions, transfer_bytes,
                        traps>>
       ELSE LET o == PlanOne(entries[ei], ci, mkdirs)
            IN /\ done' = Append(done, entries[ei].parthash)
               /\ script' = script \o o.lines
               /\ mkdirs' = o.mkdirs
               /\ n_actions' = n_actions + o.n
               /\ transfer_bytes' = transfer_bytes + o.bytes
               /\ traps' = traps \o o.traps
               /\ ppc' = IF o.raised THEN "error"
                         ELSE IF o.traps # <<>> THEN "pdb" ELSE "entries"
    /\ UNCHANGED <<src_dbs, dst_dbs, ci, entries, subdir, execVars, hashVars, updVars>>

\* the debugger's prompt: the user continues
PdbContinue ==
    /\ ppc = "pdb"
    /\ ppc' = "entries"
    /\ UNCHANGED <<src_dbs, dst_dbs, ci, entries, ei, done, mkdirs, script,
                   n_actions, transfer_bytes, subdir, traps, execVars, hashVars, updVars>>

\* the debugger's prompt: the user quits, or its input is at end of file
PdbQuit ==
    /\ ppc = "pdb"
    /\ ppc' = "halted"
    /\ UNCHANGED <<src_dbs, dst_dbs, ci, entries, ei, done, mkdirs, script,
                   n_actions, transfer_bytes, subdir, traps, execVars, hashVars, updVars>>

\* the inner loop is exhausted
PlanEndCatalog ==
    /\ ppc = "entries" /\ ei > Len(entries)
    /\ ci' = ci + 1
    /\ ppc' = "loop"
    /\ UNCHANGED <<src_dbs, dst_dbs, entries, ei, done, mkdirs, script,
                   n_actions, transfer_bytes, subdir, traps, execVars, hashVars, updVars>>

\* lines 554-567: the last cd line; the counters are printed
PlanFinish ==
    /\ ppc = "loop" /\ ci > Len(src_dbs)
    /\ script' = script
                 \o (IF subdir # NoPath
                     THEN <<Line("cd back", subdir, <<>>)>> ELSE <<>>)
    /\ ppc' = "planned"
    /\ UNCHANGED <<src_dbs, dst_dbs, ci, entries, ei, done, mkdirs,
                   n_actions, transfer_bytes, subdir, traps, execVars, hashVars, updVars>>

----------------------------------------------------------------------------
(* The script run by /bin/sh -e in the destination tree that corresponds to *)
(* the source catalog's root (one catalog on each side)                     *)

Key(r) == <<r.size, r.parthash>>

DstIsATree ==
    /\ Len(src_dbs) = 1 /\ Len(dst_dbs) = 1
    /\ \A i, j \in 1..Len(dst_dbs[1].rows) :
          dst_dbs[1].rows[i].relpath = dst_dbs[1].rows[j].relpath => i = j

\* the directories mkdir -p creates
RECURSIVE DirChain(_)
DirChain(d) == IF d = <<>> THEN {} ELSE {d} \cup DirChain(Dirname(d))

DirExists(d) == d = <<>> \/ d \in tdirs

ExecStart ==
    /\ ppc = "planned" /\ DstIsATree
    /\ tree' = [p \in PlanRelpaths |->
                  LET at == {i \in 1..Len(dst_dbs[1].rows) :
                                dst_dbs[1].rows[i].relpath = p}
                  IN IF at = {} THEN NoFile
                     ELSE Key(dst_dbs[1].rows[FirstIdx(at)])]
    /\ tdirs' = UNION {DirChain(Dirname(dst_dbs[1].rows[i].relpath)) :
                          i \in 1..Len(dst_dbs[1].rows)}
    /\ ip' = 1
    /\ failed' = FALSE
    /\ ppc' = "exec"
    /\ UNCHANGED <<src_dbs, dst_dbs, ci, entries, ei, done, mkdirs, script,
                   n_actions, transfer_bytes, subdir, traps, hashVars,
                   updVars>>

\* whether the command of a line exits non-zero
LineFails(l) ==
    CASE l.op = "mkdir" -> l.a = <<>>
      [] l.op \in {"mv", "cp"} ->
            \/ tree[l.a] = NoFile
            \/ ~DirExists(Dirname(l.b))
            \/ l.a = l.b
      [] OTHER -> FALSE

ExecLine ==
    /\ ppc = "exec" /\ ip <= Len(script)
    /\ LET l == script[ip]
       IN IF LineFails(l)
          THEN /\ failed' = TRUE
               /\ ppc' = "aborted"
               /\ UNCHANGED <<tree, tdirs, ip>>
          ELSE /\ failed' = FALSE
               /\ ip' = ip + 1
               /\ ppc' = "exec"
               /\ tree' = CASE l.op = "mv" ->
                                 [tree EXCEPT ![l.b] = tree[l.a], ![l.a] = NoFile]
                            [] l.op = "cp" -> [tree EXCEPT ![l.b] = tree[l.a]]
                            [] OTHER -> tree
               /\ tdirs' = IF l.op = "mkdir" THEN tdirs \cup DirChain(l.a)
                           ELSE tdirs
    /\ UNCHANGED <<src_dbs, dst_dbs, ci, entries, ei, done, mkdirs, script,
                   n_actions, transfer_bytes, subdir, traps, hashVars,
                   updVars>>

ExecEnd ==
    /\ ppc = "exec" /\ ip > Len(script)
    /\ ppc' = "executed"
    /\ UNCHANGED <<src_dbs, dst_dbs, ci, entries, ei, done, mkdirs, script,
                   n_actions, transfer_bytes, subdir, traps, execVars, hashVars, updVars>>

NextPlan ==
    \/ PlanOpen
    \/ PlanCatalog
    \/ PlanEntry
    \/ PdbContinue
    \/ PdbQuit
    \/ PlanEndCatalog
    \/ PlanFinish
    \/ ExecStart
    \/ ExecLine
    \/ ExecEnd

SpecPlan == InitPlan /\ [][NextPlan]_vars

----------------------------------------------------------------------------
(* Claims about the sync planner *)

RowSet(db) == {db.rows[i] : i \in 1..Len(db.rows)}

SrcRows == UNION {RowSet(src_dbs[i]) : i \in 1..Len(src_dbs)}
DstRows == UNION {RowSet(dst_dbs[i]) : i \in 1..Len(dst_dbs)}

SameKey(S, e) == {r \in S : r.size = e.size /\ r.parthash = e.parthash}

LinesWhere(Test(_)) == {i \in 1..Len(script) : Test(script[i])}

IsOperation(l) == l.op \in {"mkdir", "mv", "cp"}

\* C1: once the plan is written, every source record of size > 0 whose
\* (size, parthash) one source record and one destination record hold, under
\* different relpaths, has exactly one mv line from the destination relpath to
\* its own relpath, and no cp line targets it.
C1_RenameEmitsOneMv ==
    ppc = "planned" =>
        \A e \in SrcRows : \A d \in DstRows :
            ( /\ e.size > 0
              /\ SameKey(SrcRows, e) = {e}
              /\ SameKey(DstRows, e) = {d}
              /\ e.relpath # d.relpath )
            => /\ Cardinality(LinesWhere(
                      LAMBDA l : l = Line("mv", d.relpath, e.relpath))) = 1
               /\ LinesWhere(LAMBDA l : l.op = "cp" /\ l.b = e.relpath) = {}

SrcIsATree ==
    \A x, y \in SrcRows : x.relpath = y.relpath => x = y

\* C2: when the shell has run the script in a destination tree holding exactly
\* the destination catalog's files, no line has failed and every source record
\* (of size > 0) whose (size, parthash) the destination catalog holds is at
\* its source relpath with that content.
C2_ScriptConverges ==
    (ppc \in {"executed", "aborted"} /\ SrcIsATree) =>
        /\ ~failed
        /\ \A e \in SrcRows :
              (e.size > 0 /\ SameKey(DstRows, e) # {}) => tree[e.relpath] = Key(e)

\* C9: destination records left unmatched by the passes of the many-to-many
\* branch never stop the planner: the debugger call of line 544 is not reached.
C9_ExcessDestinationLeftAlone ==
    \A i \in 1..Len(traps) : traps[i] # 544

IdenticalCatalogs ==
    /\ Len(src_dbs) = 1 /\ Len(dst_dbs) = 1
    /\ RowSet(src_dbs[1]) = RowSet(dst_dbs[1])

C10_Identical ==
    IdenticalCatalogs =>
        /\ LinesWhere(IsOperation) = {}
        /\ n_actions = 0
        /\ traps = <<>>
        /\ ppc \notin {"error", "pdb", "halted"}

\* a step of the inner loop on an entry whose (size, parthash) one source
\* record and one destination record hold, under the same relpath
OneToOneSamePathStep ==
    /\ ppc = "entries" /\ ei <= Len(entries) /\ ei' = ei + 1
    /\ ~InList(entries[ei].parthash, done)
    /\ \E d \in DstRows :
          /\ SameKey(DstRows, entries[ei]) = {d}
          /\ d.relpath = entries[ei].relpath
    /\ SameKey(SrcRows, entries[ei]) = {entries[ei]}

\* C10: with identical record sets in one source and one destination catalog
\* the script never holds a mkdir, mv or cp line and n_actions stays 0 (and
\* the planner neither stops nor fails); and a step on an entry that matches
\* 1:1 under equal relpaths writes no line and counts no action.
C10_NoOpPreserved ==
    /\ []C10_Identical
    /\ [][OneToOneSamePathStep =>
            (script' = script /\ n_actions' = n_actions /\ ppc' = "entries")]_vars

\* identical catalogs holding two copies of one content, planned to the end
C10_Witness ==
    /\ ppc = "planned"
    /\ IdenticalCatalogs
    /\ \E x, y \in SrcRows : x # y /\ x.size > 0 /\ Key(x) = Key(y)


----------------------------------------------------------------------------
(* The fingerprint on its own: two files hashed with one chunk size *)

PlanIdle ==
    /\ src_dbs = <<>> /\ dst_dbs = <<>> /\ PlanStart

InitHash ==
    /\ h_files \in FileContents \X FileContents
    /\ h_chunk \in 1..MaxChunk
    /\ h_inputs = <<>>
    /\ PlanIdle /\ UpdIdle

\* one call of hash_file_partial, on the next file
HashNext ==
    /\ Len(h_inputs) < Len(h_files)
    /\ h_inputs' = Append(h_inputs,
                          HashFilePartial(h_files[Len(h_inputs) + 1], h_chunk))
    /\ UNCHANGED <<h_files, h_chunk, planVars, execVars, updVars>>

NextHash == HashNext

SpecHash == InitHash /\ [][NextHash]_vars

LastBytes(content, n) == SubSeq(content, Len(content) - n + 1, Len(content))

\* C8: a file of at most 2*chunk bytes is digested whole, a longer one as its
\* first chunk bytes followed by its last chunk bytes; so two longer files of
\* one size that agree on the first chunk bytes and differ in the last chunk
\* bytes give the digest different bytes.
C8_HeadAndTailDigested ==
    /\ \A i \in 1..Len(h_inputs) :
          h_inputs[i] =
              IF Len(h_files[i]) <= 2 * h_chunk THEN h_files[i]
              ELSE SubSeq(h_files[i], 1, h_chunk)
                   \o LastBytes(h_files[i], h_chunk)
    /\ ( /\ Len(h_inputs) = 2
         /\ Len(h_files[1]) = Len(h_files[2])
         /\ Len(h_files[1]) > 2 * h_chunk
         /\ SubSeq(h_files[1], 1, h_chunk) = SubSeq(h_files[2], 1, h_chunk)
         /\ LastBytes(h_files[1], h_chunk) # LastBytes(h_files[2], h_chunk) )
       => h_inputs[1] # h_inputs[2]

----------------------------------------------------------------------------
(* Catalog engine: Python dicts, kept in insertion order *)

DictHas(d, k) == \E i \in 1..Len(d) : d[i].key = k

DictGet(d, k) == d[CHOOSE i \in 1..Len(d) : d[i].key = k].val

DictKeys(d) == [i \in 1..Len(d) |-> d[i].key]

\* d.setdefault(k, []).append(x), as lines 289-292, 142-144 and 200-202 do
DictAppend(d, k, x) ==
    IF DictHas(d, k)
    THEN [i \in 1..Len(d) |->
            IF d[i].key = k THEN [d[i] EXCEPT !.val = Append(d[i].val, x)]
            ELSE d[i]]
    ELSE Append(d, [key |-> k, val |-> <<x>>])

\* cursors[path] = cur, unless path is a key already
DictAdd(keys, k) == IF InList(k, keys) THEN keys ELSE Append(keys, k)

----------------------------------------------------------------------------
(* Catalog engine: the disk *)

MaxRuns == 3
UpdChunk == 1

\* the data files, in the order a directory listing gives them
DataFileSeq == [i \in 1..Len(Dirs) |-> Join(Dirs[i], FileName)]

\* os.path.isfile
IsFile(path) == path \in DOMAIN fs /\ fs[path] # Absent

HasDb(dbs, dir) == dir \in DOMAIN dbs /\ dbs[dir].exists

\* the subdirectories of a directory, as os.walk finds them
Children(root) == SelectSeq(Dirs, LAMBDA d : d # root /\ Dirname(d) = root)

\* the files of a directory, as os.walk lists them: the data files and the
\* database file
Listing(dbs, root) ==
    LET here == SelectSeq(DataFileSeq,
                          LAMBDA f : Dirname(f) = root /\ IsFile(f))
    IN [i \in 1..Len(here) |-> SliceFrom(here[i], Len(root) + 1)]
       \o (IF HasDb(dbs, root) THEN <<DbFileName>> ELSE <<>>)

\* lines 285-293; the working directory, where the script file would be,
\* lies outside the tree
RECURSIVE AddFiles(_, _, _, _, _)
AddFiles(acc, dbpath, root, names, i) ==
    IF i > Len(names) THEN acc
    ELSE AddFiles(DictAppend(acc, dbpath, [root |-> root, f |-> names[i]]),
                  dbpath, root, names, i + 1)

\* lines 278-293: find_files, the walk of one directory and of its
\* subdirectories
RECURSIVE FindFiles(_, _, _)
RECURSIVE WalkFrom(_, _, _, _)
RECURSIVE WalkChildren(_, _, _, _, _)
FindFiles(dbs, dbpath, acc) == WalkFrom(dbs, dbpath, dbpath, acc)

WalkFrom(dbs, dbpath, root, acc) ==
    IF root # dbpath /\ InList(DbFileName, Listing(dbs, root))
    THEN FindFiles(dbs, root, acc)
    ELSE WalkChildren(dbs, dbpath, Children(root), 1,
                      AddFiles(acc, dbpath, root, Listing(dbs, root), 1))

WalkChildren(dbs, dbpath, cs, i, acc) ==
    IF i > Len(cs) THEN acc
    ELSE WalkChildren(dbs, dbpath, cs, i + 1,
                      WalkFrom(dbs, dbpath, cs[i], acc))

\* lines 294-295
RECURSIVE FindAll(_, _, _, _)
FindAll(dbs, paths, i, acc) ==
    IF i > Len(paths) THEN acc
    ELSE FindAll(dbs, paths, i + 1, FindFiles(dbs, paths[i], acc))

\* os.walk(root_dir) of line 101: every directory below, nested catalogs too
RECURSIVE OsWalkFrom(_, _, _)
OsWalkFrom(dbs, below, i) ==
    IF i > Len(below) THEN <<>>
    ELSE LET names == Listing(dbs, below[i])
         IN [k \in 1..Len(names) |-> [root |-> below[i], f |-> names[k]]]
            \o OsWalkFrom(dbs, below, i + 1)

OsWalk(dbs, root_dir) ==
    OsWalkFrom(dbs,
               SelectSeq(Dirs, LAMBDA d :
                   d = root_dir \/ StartsWith(d, Append(root_dir, "/"))),
               1)

----------------------------------------------------------------------------
(* Catalog engine: process_dbpath *)

\* the argument filelist_gen: a list, or the default None
FileList(list) == [given |-> TRUE, list |-> list]
NoFileList == [given |-> FALSE, list |-> <<>>]

\* the state process_dbpath reads and writes: the databases, the dicts
\* new_files, missing_files and cursors, and the rows inserted and deleted
Ctx(dbs, new, missing, curs, ins, del) ==
    [stores |-> dbs, new_files |-> new, missing_files |-> missing,
     cursors |-> curs, inserted |-> ins, deleted |-> del]

\* lines 149-165: the row of a new file; partial_hash is always set (line
\* 575), and the None of fullhash is written as the text "None"
NewRow(f, relpath, content) ==
    [filename |-> f, relpath |-> relpath, size |-> Len(content),
     hash |-> None, parthash |-> HashFilePartial(content, UpdChunk)]

\* lines 129-139: a row of the file's size has its relpath
AlreadyCatalogued(rows, relpath, fsize) ==
    \E i \in 1..Len(rows) : rows[i].size = fsize /\ rows[i].relpath = relpath

\* lines 107-165 for one file of the list
WalkOne(path, root_dir, e, gather_only, filelist_gen, has_new_files, c) ==
    LET fpath == Join(e.root, e.f)
        relpath == SliceFrom(fpath, Len(root_dir) + 1)
        rows == c.stores[path].files
        listed == /\ has_new_files
                  /\ \/ ~DictHas(c.new_files, root_dir)
                     \/ ~filelist_gen.given
                     \/ DictGet(c.new_files, root_dir) # filelist_gen.list
        c1 == IF listed
              THEN [c EXCEPT !.new_files = DictAppend(c.new_files, root_dir, e)]
              ELSE c
        row == NewRow(e.f, relpath, fs[fpath])
    IN IF e.f = DbFileName THEN c
       ELSE IF AlreadyCatalogued(rows, relpath, Len(fs[fpath])) THEN c
       ELSE IF gather_only THEN c1
       ELSE [c1 EXCEPT !.stores[path].files = Append(rows, row),
                       !.inserted = c1.inserted \cup {<<path, row>>}]

RECURSIVE WalkLoop(_, _, _, _, _, _, _, _)
WalkLoop(path, root_dir, list, i, gather_only, filelist_gen, has_new_files, c) ==
    IF i > Len(list) THEN c
    ELSE WalkLoop(path, root_dir, list, i + 1, gather_only, filelist_gen,
                  has_new_files,
                  WalkOne(path, root_dir, list[i], gather_only, filelist_gen,
                          has_new_files, c))

\* lines 169-179: the markers whose path is no file are deleted
PruneSubDbs(sub_dbs) == SelectSeq(sub_dbs, LAMBDA m : IsFile(m))

\* the reclaim with the first prefix test turned around: every key below the
\* catalog's own path is skipped, so a nested catalog reclaims nothing
BelongsToSubDbSkipNested(path, fpath, keys) ==
    \E i \in 1..Len(keys) :
        ~StartsWith(keys[i], path) /\ StartsWith(fpath, keys[i])

\* lines 187-190: the row's path starts with a key of all_files that the
\* catalog's own path does not start with
BelongsToSubDb(path, fpath, keys) ==
    \E i \in 1..Len(keys) :
        ~StartsWith(path, keys[i]) /\ StartsWith(fpath, keys[i])

\* DELETE FROM files WHERE relpath == ..
DeleteRelpath(rows, relpath) == SelectSeq(rows, LAMBDA r : r.relpath # relpath)

RowsAt(rows, relpath) ==
    {rows[i] : i \in {k \in 1..Len(rows) : rows[k].relpath = relpath}}

\* lines 184-207 for one row of the snapshot
PruneOne(path, root_dir, entry, keys, c) ==
    LET fpath == Join(root_dir, entry.relpath)
        rows == c.stores[path].files
        c1 == IF BelongsToSubDb(path, fpath, keys)
              THEN [c EXCEPT
                      !.stores[path].files = DeleteRelpath(rows, entry.relpath),
                      !.deleted = c.deleted \cup
                          {<<path, r>> : r \in RowsAt(rows, entry.relpath)}]
              ELSE c
    IN IF ~IsFile(fpath)
       THEN [c1 EXCEPT !.missing_files = DictAppend(c1.missing_files, path, entry)]
       ELSE c1

RECURSIVE PruneLoop(_, _, _, _, _, _)
PruneLoop(path, root_dir, snapshot, i, keys, c) ==
    IF i > Len(snapshot) THEN c
    ELSE PruneLoop(path, root_dir, snapshot, i + 1, keys,
                   PruneOne(path, root_dir, snapshot[i], keys, c))

\* lines 51-213; every root of the model is a directory, so dbpath is the
\* database file in it and root_dir the root itself
ProcessDbpath(path0, gather_only, filelist_gen, has_new_files, keys, c) ==
    LET path == RStripSlash(path0)
        dbpath == Join(path, DbFileName)
        opened == [c EXCEPT
                     !.stores[path] = IF HasDb(c.stores, path)
                                      THEN c.stores[path] ELSE EmptyDb,
                     !.cursors = DictAdd(c.cursors, path)]
        root_dir == Dirname(dbpath)
        filegen == IF ~filelist_gen.given
                   THEN OsWalk(opened.stores, root_dir) ELSE filelist_gen.list
        walked == WalkLoop(path, root_dir, filegen, 1, gather_only,
                           filelist_gen, has_new_files, opened)
        pruned == [walked EXCEPT !.stores[path].sub_dbs =
                                    PruneSubDbs(walked.stores[path].sub_dbs)]
    IN PruneLoop(path, root_dir, pruned.stores[path].files, 1, keys, pruned)

----------------------------------------------------------------------------
(* Catalog engine: update_paths *)

\* lines 324-328: SELECT * FROM files WHERE size == .., in one open database,
\* and the advisory printed for it
Moved(dbs, dbpath, entry, i_dbpath) ==
    LET i_entries == SelectSeq(dbs[i_dbpath].files,
                               LAMBDA r : r.size = entry.size)
    IN [kind |-> "moved", db |-> dbpath, relpath |-> entry.relpath,
        path |-> Join(dbpath, entry.relpath), in |-> i_dbpath,
        to |-> [k \in 1..Len(i_entries) |-> i_entries[k].relpath]]

Removed(dbpath, entry) ==
    [kind |-> "removed", db |-> dbpath, relpath |-> entry.relpath,
     path |-> entry.relpath, in |-> NoPath, to |-> <<>>]

\* ReportOne without the DELETE of lines 333-335
ReportOneNoDelete(dbpath, entry, st) ==
    LET moved == [k \in 1..Len(st.cursors) |->
                     Moved(st.stores, dbpath, entry, st.cursors[k])]
    IN [st EXCEPT !.log = st.log \o moved]

\* lines 321-335 for one missing row: found is set by the first open database,
\* whatever its query returns
ReportOne(dbpath, entry, st) ==
    LET moved == [k \in 1..Len(st.cursors) |->
                     Moved(st.stores, dbpath, entry, st.cursors[k])]
        found == Len(st.cursors) > 0
        rows == st.stores[dbpath].files
    IN [st EXCEPT
          !.log = st.log \o moved
                    \o (IF ~found THEN <<Removed(dbpath, entry)>> ELSE <<>>),
          !.stores[dbpath].files = DeleteRelpath(rows, entry.relpath),
          !.deleted = st.deleted \cup
                         {<<dbpath, r>> : r \in RowsAt(rows, entry.relpath)}]

RECURSIVE ReportEntries(_, _, _, _)
ReportEntries(dbpath, list, i, st) ==
    IF i > Len(list) THEN st
    ELSE ReportEntries(dbpath, list, i + 1, ReportOne(dbpath, list[i], st))

\* lines 320-335
RECURSIVE ReportAll(_, _, _)
ReportAll(missing, i, st) ==
    IF i > Len(missing) THEN st
    ELSE ReportAll(missing, i + 1,
                   ReportEntries(missing[i].key, missing[i].val, 1, st))

UpdateArgs == {<<P>>, <<Sub>>}

InitUpd ==
    /\ UpdIdle /\ PlanIdle /\ HashIdle

TheCtx == Ctx(stores, new_files, missing_files, cursors, inserted, deleted)

\* lines 271-297: a run of the program starts; the walk fills all_files
UpdateStart(paths) ==
    /\ upc = "idle" /\ runs < MaxRuns
    /\ runs' = runs + 1
    /\ dbpaths' = [i \in 1..Len(paths) |-> RStripSlash(paths[i])]
    /\ all_files' = FindAll(stores, dbpaths', 1, <<>>)
    /\ queue' = IF all_files' # <<>> THEN DictKeys(all_files') ELSE dbpaths'
    /\ rerun' = (settled = paths)
    /\ settled' = NoPaths
    /\ upc' = "gather"
    /\ UNCHANGED <<fs, stores, new_files, missing_files, cursors, log,
                   inserted, deleted, planVars, execVars, hashVars>>

\* lines 302-307: process_dbpath in gather mode for the next root; after the
\* last one the roots of new_files are queued (lines 316-318)
Gather ==
    /\ upc = "gather" /\ queue # <<>>
    /\ LET c == ProcessDbpath(Head(queue), TRUE,
                              IF all_files # <<>>
                              THEN FileList(DictGet(all_files, Head(queue)))
                              ELSE NoFileList,
                              TRUE, DictKeys(all_files), TheCtx)
       IN /\ stores' = c.stores
          /\ new_files' = c.new_files
          /\ missing_files' = c.missing_files
          /\ cursors' = c.cursors
          /\ inserted' = c.inserted
          /\ deleted' = c.deleted
          /\ IF Tail(queue) # <<>>
             THEN queue' = Tail(queue) /\ upc' = "gather"
             ELSE IF c.new_files # <<>>
             THEN queue' = DictKeys(c.new_files) /\ upc' = "ingest"
             ELSE queue' = <<>> /\ upc' = "report"
    /\ UNCHANGED <<fs, dbpaths, all_files, log, settled, rerun, runs,
                   planVars, execVars, hashVars>>

\* lines 316-318: process_dbpath on the new files of the next root
Ingest ==
    /\ upc = "ingest" /\ queue # <<>>
    /\ LET c == ProcessDbpath(Head(queue), FALSE,
                              FileList(DictGet(new_files, Head(queue))),
                              FALSE, DictKeys(all_files), TheCtx)
       IN /\ stores' = c.stores
          /\ new_files' = c.new_files
          /\ missing_files' = c.missing_files
          /\ cursors' = c.cursors
          /\ inserted' = c.inserted
          /\ deleted' = c.deleted
    /\ queue' = Tail(queue)
    /\ upc' = IF Tail(queue) # <<>> THEN "ingest" ELSE "report"
    /\ UNCHANGED <<fs, dbpaths, all_files, log, settled, rerun, runs,
                   planVars, execVars, hashVars>>

\* what is in a database file once the process has ended without a commit
\* on the connection: sqlite3 rolls the open transaction back
AtExitAutocommit(committed, uncommitted) == uncommitted

\* lines 162-167: the INSERTs of the loop run in one transaction, committed
\* after the loop; a connection closed before that keeps the committed rows
AtExit(committed, uncommitted) == committed

\* lines 316-318 when os.stat (line 126) or the hashing (line 150) of the
\* k-th new file of the root raises OSError: the rows of the files before it
\* are inserted on the connection, the exception ends the program
IngestFails ==
    /\ upc = "ingest" /\ queue # <<>>
    /\ LET path == Head(queue)
           list == DictGet(new_files, path)
       IN \E k \in 1..Len(list) :
             LET opened == [TheCtx EXCEPT !.cursors = DictAdd(cursors, path)]
                 c == WalkLoop(path, path, SubSeq(list, 1, k - 1), 1, FALSE,
                               FileList(list), FALSE, opened)
             IN /\ list[k].f # DbFileName
                /\ stores' = AtExit(stores, c.stores)
                /\ cursors' = c.cursors
                /\ log' = Append(log, [kind |-> "error", db |-> path,
                                       staged |-> c.inserted \ inserted])
    /\ upc' = "crashed"
    /\ UNCHANGED <<fs, dbpaths, all_files, new_files, missing_files, queue,
                   inserted, deleted, settled, rerun, runs, planVars,
                   execVars, hashVars>>

\* the process has ended with the traceback of the exception
Abort ==
    /\ upc = "crashed"
    /\ upc' = "idle"
    /\ dbpaths' = <<>> /\ all_files' = <<>> /\ new_files' = <<>>
    /\ missing_files' = <<>> /\ cursors' = <<>> /\ queue' = <<>>
    /\ log' = <<>> /\ inserted' = {} /\ deleted' = {} /\ rerun' = FALSE
    /\ UNCHANGED <<fs, stores, settled, runs, planVars, execVars, hashVars>>

RECURSIVE DupsOf(_, _, _, _)
RECURSIVE ListDupsRows(_, _, _, _, _)
RECURSIVE ListDups(_, _, _, _)

\* lines 347-351: the relpaths of the rows of all open databases whose hash
\* column equals the entry's
DupsOf(dbs, curs, h, k) ==
    IF k > Len(curs) THEN <<>>
    ELSE LET sub_entries == SelectSeq(dbs[curs[k]].files,
                                      LAMBDA r : r.hash = h)
         IN [n \in 1..Len(sub_entries) |-> sub_entries[n].relpath]
            \o DupsOf(dbs, curs, h, k + 1)

\* lines 343-356 for the rows of one database; st holds dup_hashes and the
\* groups printed
ListDupsRows(dbs, curs, rows, i, st) ==
    IF i > Len(rows) THEN st
    ELSE LET h == rows[i].hash
             dups == DupsOf(dbs, curs, h, 1)
         IN ListDupsRows(dbs, curs, rows, i + 1,
                IF InList(h, st.dup_hashes) \/ Len(dups) <= 1 THEN st
                ELSE [dup_hashes |-> Append(st.dup_hashes, h),
                      out |-> Append(st.out,
                                     [kind |-> "dups", hash |-> h,
                                      to |-> dups])])

\* lines 337-356
ListDups(dbs, curs, k, st) ==
    IF k > Len(curs) THEN st
    ELSE ListDups(dbs, curs, k + 1,
                  ListDupsRows(dbs, curs, dbs[curs[k]].files, 1, st))

\* lines 320-359: the move report, the deletion of the missing rows, the
\* listing of duplicates when --list-dups is given, the commit
MoveReport ==
    /\ upc = "report"
    /\ \E list_dups \in BOOLEAN :
        LET st == ReportAll(missing_files, 1,
                           [stores |-> stores, cursors |-> cursors,
                            log |-> log, deleted |-> deleted])
            ld == ListDups(st.stores, cursors, 1,
                           [dup_hashes |-> <<>>, out |-> <<>>])
        IN /\ stores' = st.stores
           /\ log' = st.log \o (IF list_dups THEN ld.out ELSE <<>>)
           /\ deleted' = st.deleted
    /\ upc' = "exit"
    /\ UNCHANGED <<fs, dbpaths, all_files, new_files, missing_files, cursors,
                   queue, inserted, settled, rerun, runs, planVars, execVars,
                   hashVars>>

\* the process ends: its dicts and its output are gone, the databases stay
Exit ==
    /\ upc = "exit"
    /\ upc' = "idle"
    /\ settled' = dbpaths
    /\ dbpaths' = <<>> /\ all_files' = <<>> /\ new_files' = <<>>
    /\ missing_files' = <<>> /\ cursors' = <<>> /\ queue' = <<>>
    /\ log' = <<>> /\ inserted' = {} /\ deleted' = {} /\ rerun' = FALSE
    /\ UNCHANGED <<fs, stores, runs, planVars, execVars, hashVars>>

----------------------------------------------------------------------------
(* Changes of the disk between two runs *)

DiskChange(fs1) ==
    /\ upc = "idle"
    /\ fs' = fs1
    /\ settled' = NoPaths
    /\ UNCHANGED <<stores, upc, dbpaths, all_files, new_files, missing_files,
                   cursors, queue, log, inserted, deleted, rerun, runs,
                   planVars, execVars, hashVars>>

FsCreate(f, content) ==
    /\ fs[f] = Absent
    /\ DiskChange([fs EXCEPT ![f] = content])

FsDelete(f) ==
    /\ fs[f] # Absent
    /\ DiskChange([fs EXCEPT ![f] = Absent])

FsRewrite(f, content) ==
    /\ fs[f] # Absent /\ fs[f] # content
    /\ DiskChange([fs EXCEPT ![f] = content])

FsMove(f, g) ==
    /\ fs[f] # Absent /\ fs[g] = Absent
    /\ DiskChange([fs EXCEPT ![g] = fs[f], ![f] = Absent])

NextUpd ==
    \/ \E paths \in UpdateArgs : UpdateStart(paths)
    \/ Gather
    \/ Ingest
    \/ IngestFails
    \/ Abort
    \/ MoveReport
    \/ Exit
    \/ \E f \in DataFiles, content \in UpdContents : FsCreate(f, content)
    \/ \E f \in DataFiles : FsDelete(f)
    \/ \E f \in DataFiles, content \in UpdContents : FsRewrite(f, content)
    \/ \E f, g \in DataFiles : FsMove(f, g)

SpecUpd == InitUpd /\ [][NextUpd]_vars

----------------------------------------------------------------------------
(* Claims about the catalog engine *)

\* a file or directory below a directory, by whole path components
IsUnder(path, dir) == StartsWith(path, Append(dir, "/"))

\* the run of update_paths(paths) has come to its end
RunDone(paths) == upc = "exit" /\ dbpaths = paths

\* the catalog that owns a file when root P is reconciled: the nested one, if
\* it exists and the file lies below it
OwnerUnderP(f) ==
    IF HasDb(stores, Sub) /\ IsUnder(f, Sub) THEN Sub ELSE P

RowsOfFile(d, f) ==
    {i \in 1..Len(stores[d].files) : Join(d, stores[d].files[i].relpath) = f}

\* C3: no two rows of one files relation have the same relpath, whatever runs
\* and changes of the disk came before; and when a run over root P has ended,
\* every file on disk has exactly one row in the catalog that owns it.
C3_RelpathUnique ==
    /\ \A d \in DirSet :
          \A i, j \in 1..Len(stores[d].files) :
              stores[d].files[i].relpath = stores[d].files[j].relpath => i = j
    /\ RunDone(<<P>>) =>
          \A f \in DataFiles :
              IsFile(f) => Cardinality(RowsOfFile(OwnerUnderP(f), f)) = 1

\* C4: when a run over root P has ended whose walk found the nested catalog
\* p/s, the sub_dbs relation of P's database holds a marker for it (its path
\* relative to P, or its path as the walk names it).
C4_MarkerInserted ==
    (RunDone(<<P>>) /\ DictHas(all_files, Sub) /\ HasDb(stores, P)) =>
        \E i \in 1..Len(stores[P].sub_dbs) :
            stores[P].sub_dbs[i] \in {Sub, SliceFrom(Sub, Len(P) + 1)}

\* C5: when a run over root P has ended and the nested catalog p/s exists, P's
\* database has no row of a file below p/s, and every file below p/s has a
\* row in the nested database.
C5_NestedOwnsItsFiles ==
    (RunDone(<<P>>) /\ HasDb(stores, Sub)) =>
        /\ \A i \in 1..Len(stores[P].files) :
              ~IsUnder(Join(P, stores[P].files[i].relpath), Sub)
        /\ \A f \in DataFiles :
              (IsFile(f) /\ IsUnder(f, Sub)) => RowsOfFile(Sub, f) # {}

\* the parent held a row for a file below p/s, the nested catalog appeared,
\* and the run over P deleted the row
C5_Witness ==
    /\ RunDone(<<P>>) /\ HasDb(stores, Sub)
    /\ \E x \in deleted : x[1] = P /\ IsUnder(Join(P, x[2].relpath), Sub)
    /\ \E f \in DataFiles : IsFile(f) /\ IsUnder(f, Sub)

\* a record other than the vanished one is among those the advisory lists
OtherRecord(a) ==
    \E k \in 1..Len(a.to) : a.in # a.db \/ a.to[k] # a.relpath

\* C6: a "moved" advisory is printed for a vanished record only if another
\* record of its size exists in an open database (otherwise "removed" is).
C6_MovedOnlyIfSameSizeElsewhere ==
    \A i \in 1..Len(log) : log[i].kind = "moved" => OtherRecord(log[i])

\* C7: a run that repeats the previous run on an unchanged disk inserts no row
\* and deletes no row.
C7_Idempotent ==
    rerun => (inserted = {} /\ deleted = {})

----------------------------------------------------------------------------
(* Further claims about the sync planner *)

IsMissing(l) == l.op = "missing"

\* the size of the source record a comment line names (source relpaths unique)
SizeNamed(l) == (CHOOSE e \in SrcRows : e.relpath = l.a).size

\* the sum of the sizes of the records named in the comment lines from i on
RECURSIVE MissingSum(_)
MissingSum(i) ==
    IF i > Len(script) THEN 0
    ELSE (IF IsMissing(script[i]) THEN SizeNamed(script[i]) ELSE 0)
         + MissingSum(i + 1)

C11_SumOfNamed ==
    SrcIsATree => transfer_bytes = MissingSum(1)

\* a step of the inner loop adds to transfer_bytes the size of the entry it
\* writes a comment line for, and nothing when it writes none
C11_Step ==
    LET added == SubSeq(script', Len(script) + 1, Len(script'))
        named == SelectSeq(added, IsMissing)
    IN (ppc = "entries" /\ ei <= Len(entries) /\ ei' = ei + 1) =>
          /\ Len(named) <= 1
          /\ named = <<>> => transfer_bytes' = transfer_bytes
          /\ named # <<>> =>
                /\ named[1].a = entries[ei].relpath
                /\ transfer_bytes' = transfer_bytes + entries[ei].size

\* C11: transfer_bytes is at every point of the planning, and so at its end,
\* the sum of the size fields of the source records named in the "# missing
\* on destination" lines written so far: each such line is written together
\* with the addition of its record's size, and nothing else adds to it.
C11_TransferIsSumOfMissing ==
    /\ []C11_SumOfNamed
    /\ [][C11_Step]_vars

\* a finished plan with two comment lines for records of different sizes
C11_Witness ==
    /\ ppc = "planned"
    /\ SrcIsATree
    /\ \E i, j \in LinesWhere(IsMissing) :
          i # j /\ SizeNamed(script[i]) # SizeNamed(script[j])
    /\ transfer_bytes = 3


\* the relpaths of the records of an entry's (size, parthash) group that the
\* path-identity pass leaves unmatched, on the source and on the destination
GroupL(e) == {r.relpath : r \in SameKey(SrcRows, e)}
GroupR(e) == {r.relpath : r \in SameKey(DstRows, e)}
UnmatchedL(e) == GroupL(e) \ GroupR(e)
UnmatchedR(e) == GroupR(e) \ GroupL(e)

\* a step of the inner loop that takes the many-to-many branch
ManyToManyStep ==
    /\ ppc = "entries" /\ ei <= Len(entries) /\ ei' = ei + 1
    /\ ~InList(entries[ei].parthash, done)
    /\ SameKey(DstRows, entries[ei]) # {}
    /\ ~( Cardinality(SameKey(SrcRows, entries[ei])) = 1
          /\ Cardinality(SameKey(DstRows, entries[ei])) = 1 )

----------------------------------------------------------------------------
(* Further claims about the catalog engine *)

\* C13: every group the duplicate listing prints is a group of two or more
\* records of one full hash that is not null; records ingested in
\* partial-hash mode, whose hash was left None, are in no printed group.
C13_DupsShareFullHash ==
    \A i \in 1..Len(log) :
        log[i].kind = "dups" => (log[i].hash # None /\ Len(log[i].to) >= 2)


----------------------------------------------------------------------------
(* The sync planner with several catalogs on each side: find_dbs returns    *)
(* every directory below a source (destination) that holds a database file  *)

MultiRelpaths == {<<"a">>, <<"d", "/", "a">>}

MultiKeys == {<<1, "h1">>, <<1, "h2">>}

MultiRecords ==
    {[relpath |-> p, size |-> k[1], parthash |-> k[2]] :
        p \in MultiRelpaths, k \in MultiKeys}

\* the rows of one files relation, in walk order
MultiCatalogRows ==
    {InWalkOrder(S) : S \in
        {T \in SUBSET MultiRecords :
            \A x, y \in T :
                (x.relpath = y.relpath /\ x.size = y.size) => x = y}}

\* the catalog roots find_dbs finds, in the order of its walk
SrcRoots == <<Join(SrcRoot, <<"x">>), Join(SrcRoot, <<"y">>)>>
DstRoots == <<Join(DstRoot, <<"x">>), Join(DstRoot, <<"y">>)>>

\* the lists of open catalogs: the first n roots, each with its rows
CatalogLists(roots) ==
    UNION {[1..n -> MultiCatalogRows] : n \in 1..Len(roots)}

Opened(roots, rows) ==
    [i \in 1..Len(rows) |-> [path |-> roots[i], rows |-> rows[i]]]

InitPlanMulti ==
    /\ src_dbs \in {Opened(SrcRoots, rs) : rs \in CatalogLists(SrcRoots)}
    /\ dst_dbs \in {Opened(DstRoots, rs) : rs \in CatalogLists(DstRoots)}
    /\ PlanStart
    /\ HashIdle /\ UpdIdle

NextPlanMulti ==
    \/ PlanOpen
    \/ PlanCatalog
    \/ PlanEntry
    \/ PdbContinue
    \/ PdbQuit
    \/ PlanEndCatalog
    \/ PlanFinish

SpecPlanMulti == InitPlanMulti /\ [][NextPlanMulti]_vars

\* the index of the cd line of the script section a line is in (0: none)
SectionOf(i) ==
    LET cds == {k \in 1..(i - 1) : script[k].op = "cd"}
    IN IF cds = {} THEN 0 ELSE CHOOSE k \in cds : \A j \in cds : j <= k

\* C14: every mv or cp line whose target has a parent directory comes after a
\* mkdir line for that directory written in the same section of the script
\* (after the last cd into a source catalog root), and no mkdir line names
\* the empty directory.
C14_MkdirBeforeUse ==
    /\ \A i \in 1..Len(script) :
          (script[i].op \in {"mv", "cp"} /\ Dirname(script[i].b) # <<>>) =>
              \E j \in (SectionOf(i) + 1)..(i - 1) :
                  script[j] = Line("mkdir", Dirname(script[i].b), <<>>)
    /\ \A i \in 1..Len(script) :
          script[i].op = "mkdir" => script[i].a # <<>>


\* the source catalog whose root the cd line of a section names
CatalogOfSection(k) ==
    CHOOSE c \in 1..Len(src_dbs) : src_dbs[c].path = script[k].a

\* C15: every mv or cp line stands in the section of a source catalog that
\* holds a record whose relpath is the line's target; no line targets a
\* record of another source catalog only.
C15_LineInOwnersSection ==
    \A i \in 1..Len(script) :
        script[i].op \in {"mv", "cp"} =>
            /\ SectionOf(i) # 0
            /\ \E r \in RowSet(src_dbs[CatalogOfSection(SectionOf(i))]) :
                  r.relpath = script[i].b

\* the (size, parthash) of a source record is held by that record alone on
\* the source side and by one record on the destination side, and its relpath
\* by no other source record
OneToOnePairs ==
    {<<e, d>> \in SrcRows \X DstRows :
        /\ e.size > 0
        /\ Key(d) = Key(e)
        /\ Cardinality({c \in 1..Len(src_dbs) : e \in RowSet(src_dbs[c])}) = 1
        /\ Cardinality({c \in 1..Len(dst_dbs) : d \in RowSet(dst_dbs[c])}) = 1
        /\ SameKey(SrcRows, e) = {e}
        /\ SameKey(DstRows, e) = {d}
        /\ \A x \in SrcRows : x.relpath = e.relpath => x = e}

\* C16: planning never ends with an error; and in a finished plan every
\* source record matched 1:1 has, whichever catalogs hold the two records,
\* no mv or cp line when the relpaths are equal and otherwise one mv line,
\* from the destination relpath (a target without parent directory aside).
C16_UniqueMembersAnyCatalog ==
    /\ ppc # "error"
    /\ ppc = "planned" =>
          \A p \in OneToOnePairs :
              LET e == p[1]
                  d == p[2]
                  mine == LinesWhere(LAMBDA l : l.op \in {"mv", "cp"}
                                                  /\ l.b = e.relpath)
              IN IF e.relpath = d.relpath \/ Dirname(e.relpath) = <<>>
                 THEN mine = {}
                 ELSE /\ Cardinality(mine) = 1
                      /\ \A i \in mine :
                            script[i] = Line("mv", d.relpath, e.relpath)


----------------------------------------------------------------------------
(* Further claims about the catalog engine: pruning, failures, reclaim *)

\* the rows of a run's missing_files, with the catalog that held them
MissingRows ==
    UNION {{<<missing_files[k].key, missing_files[k].val[n]>> :
               n \in 1..Len(missing_files[k].val)} :
           k \in 1..Len(missing_files)}

\* C17: when a run has come to its end, every row left in a database the run
\* has opened names a file that is on disk, and every row of this run whose
\* file was absent when its database was pruned has been recorded in
\* missing_files and deleted.
C17_NoRecordWithoutFile ==
    upc = "exit" =>
        /\ \A k \in 1..Len(cursors) :
              \A i \in 1..Len(stores[cursors[k]].files) :
                  IsFile(Join(cursors[k], stores[cursors[k]].files[i].relpath))
        /\ \A x \in MissingRows :
              /\ ~IsFile(Join(x[1], x[2].relpath))
              /\ x \in deleted
              /\ RowsOfFile(x[1], Join(x[1], x[2].relpath)) = {}

\* a run that found the rows of deleted files, among them two rows of one
\* relpath, and removed them
C17_Witness ==
    /\ upc = "exit"
    /\ \E x, y \in MissingRows :
          x[1] = y[1] /\ x[2].relpath = y[2].relpath /\ x[2].size # y[2].size
    /\ \E x \in MissingRows : \E f \in DataFiles : IsFile(f) /\ RowsOfFile(x[1], f) # {}


\* C18: when the ingestion of a root has failed on a file, no row inserted
\* for that root in the failed pass is in the root's database afterwards.
C18_FailedPassLeavesNoRow ==
    \A i \in 1..Len(log) :
        log[i].kind = "error" =>
            \A x \in log[i].staged :
                \A n \in 1..Len(stores[log[i].db].files) :
                    stores[log[i].db].files[n] # x[2]

\* a pass that had inserted rows for the root before it failed
C18_Witness ==
    /\ upc = "crashed"
    /\ \E i \in 1..Len(log) :
          /\ log[i].kind = "error"
          /\ Cardinality(log[i].staged) >= 2
          /\ \A x \in log[i].staged : x[1] = log[i].db


\* C20: a row deleted while its file is on disk is the row of a file below
\* the root directory of a nested catalog, by whole path components; the
\* reclaim deletes no other row (not that of p/s2/f for the nested catalog
\* p/s).
C20_ReclaimOnlyBelowNestedRoot ==
    \A x \in deleted :
        IsFile(Join(x[1], x[2].relpath)) =>
            \E d \in DirSet :
                /\ d # x[1] /\ HasDb(stores, d)
                /\ IsUnder(Join(x[1], x[2].relpath), d)


\* the number of planned outcomes of a source record: 1 for no action (a
\* destination record of its content has its relpath), and 1 for each mv
\* line, cp line and comment line that names its relpath as the target
Outcomes(e) ==
    (IF \E d \in SameKey(DstRows, e) : d.relpath = e.relpath THEN 1 ELSE 0)
    + Cardinality(LinesWhere(LAMBDA l : l.op \in {"mv", "cp"}
                                         /\ l.b = e.relpath))
    + Cardinality(LinesWhere(LAMBDA l : l.op = "missing"
                                         /\ l.a = e.relpath))

\* C19: in a finished plan every source record of size > 0 has exactly one
\* planned outcome (the source relpaths being those of one tree).
C19_OneOutcomePerRecord ==
    (ppc = "planned" /\ SrcIsATree) =>
        \A e \in SrcRows : e.size > 0 => Outcomes(e) = 1

============================================================================
